---- MODULE Spec2Model ----
(***************************************************************************)
(* A model of twty (src/twty.go), a command-line Twitter client.  One run  *)
(* of main is a state machine: flag.Parse, getConfig, getAccessToken, the  *)
(* settings write, the media uploads and the dispatched action.  Strings   *)
(* of the program are sequences of one-character strings, so that Split,   *)
(* Join, Atoi and FormatInt are computed character by character.           *)
(***************************************************************************)
EXTENDS Integers, Sequences, FiniteSets, TLC

(***************************************************************************)
(* Bounds of the model.                                                    *)
(***************************************************************************)
\* the longest media list given with -m
MaxMedia == 2
\* the longest tweet list a response carries
MaxTweets == 3
\* the largest absolute value of a -since_id / -max_id
MaxID == 12
\* the longest string handed to an option builder
MaxStrLen == 5

(***************************************************************************)
(* Strings.                                                                *)
(***************************************************************************)
Digit == <<"0", "1", "2", "3", "4", "5", "6", "7", "8", "9">>

DigitChars == {Digit[i] : i \in 1..10}

DigitVal(c) == (CHOOSE i \in 1..10 : Digit[i] = c) - 1

\* the index of the first occurrence of character c in s, 0 when there is none
IndexOf(s, c) ==
    IF \E i \in 1..Len(s) : s[i] = c
    THEN CHOOSE i \in 1..Len(s) : s[i] = c /\ \A j \in 1..(i - 1) : s[j] # c
    ELSE 0

\* strings.Split(s, sep) for a one-character separator
RECURSIVE Split(_, _)
Split(s, sep) ==
    LET i == IndexOf(s, sep)
    IN  IF i = 0 THEN <<s>>
        ELSE <<SubSeq(s, 1, i - 1)>> \o Split(SubSeq(s, i + 1, Len(s)), sep)

\* strings.SplitN(s, sep, 2) for a one-character separator
SplitN2(s, sep) ==
    LET i == IndexOf(s, sep)
    IN  IF i = 0 THEN <<s>>
        ELSE <<SubSeq(s, 1, i - 1), SubSeq(s, i + 1, Len(s))>>

\* strings.Join(parts, sep)
Join(parts, sep) ==
    IF Len(parts) = 0 THEN <<>>
    ELSE LET F[i \in 1..Len(parts)] ==
                 IF i = 1 THEN parts[1] ELSE F[i - 1] \o sep \o parts[i]
         IN  F[Len(parts)]

\* the digits of the largest int and of the magnitude of the smallest int
\* (int is 64 bits wide)
IntMaxDigits ==
    <<"9", "2", "2", "3", "3", "7", "2", "0", "3", "6",
      "8", "5", "4", "7", "7", "5", "8", "0", "7">>

IntMinDigits ==
    <<"9", "2", "2", "3", "3", "7", "2", "0", "3", "6",
      "8", "5", "4", "7", "7", "5", "8", "0", "8">>

\* a digit string without its leading zeros
RECURSIVE StripZeros(_)
StripZeros(s) ==
    IF Len(s) > 0 /\ s[1] = "0" THEN StripZeros(Tail(s)) ELSE s

\* a <= b for the numbers written by two digit strings without leading zeros
DigitsLE(a, b) ==
    \/ Len(a) < Len(b)
    \/ /\ Len(a) = Len(b)
       /\ \/ a = b
          \/ \E i \in 1..Len(a) :
                /\ DigitVal(a[i]) < DigitVal(b[i])
                /\ \A j \in 1..(i - 1) : a[j] = b[j]

\* whether strconv.Atoi(s) returns a nil error: an optional sign, then one
\* or more decimal digits (no other character, no underscore), whose value
\* is in the range of int
AtoiOk(s) ==
    LET neg  == Len(s) > 0 /\ s[1] = "-"
        body == IF Len(s) > 0 /\ s[1] \in {"+", "-"} THEN Tail(s) ELSE s
    IN  /\ Len(body) > 0
        /\ \A i \in 1..Len(body) : body[i] \in DigitChars
        /\ DigitsLE(StripZeros(body),
                    IF neg THEN IntMinDigits ELSE IntMaxDigits)

\* strconv.FormatInt(n, 10)
RECURSIVE FormatNat(_)
FormatNat(n) ==
    IF n < 10 THEN <<Digit[n + 1]>>
    ELSE FormatNat(n \div 10) \o <<Digit[(n % 10) + 1]>>

FormatInt(n) == IF n < 0 THEN <<"-">> \o FormatNat(-n) ELSE FormatNat(n)


(***************************************************************************)
(* Parameter mappings (map[string]string): functions whose domain is the   *)
(* set of keys present.                                                    *)
(***************************************************************************)
EmptyMap == [k \in {} |-> <<>>]

Put(opt, key, val) ==
    [k \in (DOMAIN opt) \cup {key} |-> IF k = key THEN val ELSE opt[k]]

Has(opt, key) == key \in DOMAIN opt

\* m[key] of Go: the zero value when the key is absent
Get(m, key, zero) == IF key \in DOMAIN m THEN m[key] ELSE zero

(***************************************************************************)
(* Option builders, src/twty.go 425-482.                                   *)
(***************************************************************************)
countToOptUnchecked(opt, c) ==
    IF c # <<>> THEN Put(opt, "count", c) ELSE opt

countToOpt(opt, c) ==
    IF c # <<>> /\ AtoiOk(c) THEN Put(opt, "count", c) ELSE opt

isTimeFormat(t) ==
    LET splitFormat == Split(t, "-")
    IN  /\ Len(splitFormat) = 3
        /\ \A i \in 1..Len(splitFormat) : AtoiOk(splitFormat[i])

timeFormatToOptAnd(opt, key, timeFormat) ==
    IF timeFormat = <<>> \/ ~isTimeFormat(timeFormat)
    THEN opt
    ELSE Put(opt, key, timeFormat)

timeFormatToOpt(opt, key, timeFormat) ==
    IF timeFormat # <<>> \/ ~isTimeFormat(timeFormat)
    THEN opt
    ELSE Put(opt, key, timeFormat)

sinceToOpt(opt, timeFormat) == timeFormatToOpt(opt, "since", timeFormat)

untilToOpt(opt, timeFormat) == timeFormatToOpt(opt, "until", timeFormat)

idToOptOffByOne(opt, key, id) ==
    IF id < 2 THEN opt ELSE Put(opt, key, FormatInt(id))

idToOpt(opt, key, id) ==
    IF id < 1 THEN opt ELSE Put(opt, key, FormatInt(id))

sinceIDtoOpt(opt, id) == idToOpt(opt, "since_id", id)

maxIDtoOpt(opt, id) == idToOpt(opt, "max_id", id)

(***************************************************************************)
(* Output formatter, src/twty.go 316-363.  An emitted record names the     *)
(* format it was rendered in and the value rendered.                       *)
(***************************************************************************)
Emit(kind, fmt, val) == [k |-> kind, fmt |-> fmt, v |-> val]

showTweetsAllReversed(tweets, asjson, verbose) ==
    LET n == Len(tweets)
        fmt == IF asjson THEN "json" ELSE IF verbose THEN "verbose" ELSE "plain"
    IN  [j \in 1..n |-> Emit("tweet", fmt, tweets[n + 1 - j])]

showTweets(tweets, asjson, verbose) ==
    LET n == Len(tweets)
    IN  IF asjson
        THEN [j \in 1..n |-> Emit("tweet", "json", tweets[j])]
        ELSE IF verbose
        THEN [j \in 1..n |-> Emit("tweet", "verbose", tweets[n + 1 - j])]
        ELSE [j \in 1..n |-> Emit("tweet", "plain", tweets[n + 1 - j])]

showUser(user, asjson, verbose) ==
    IF asjson THEN <<Emit("user", "json", user)>>
    ELSE IF verbose THEN <<Emit("user", "verbose", user)>>
    ELSE <<Emit("user", "plain", user)>>

(***************************************************************************)
(* The run of main, src/twty.go 484-696.                                   *)
(***************************************************************************)
VARIABLES
    pc,         \* the statement main is at
    flag,       \* the flags that decide the action, as flag.Parse left them
    disk,       \* the profile's settings file
    disk0,      \* the settings file as the run found it
    config,     \* the Configuration mapping
    client,     \* oauthClient.Credentials
    token,      \* the access credential getAccessToken returned
    authorized, \* getAccessToken's second result
    browser,    \* what became of the browser launch
    writeCalls, \* calls of ioutil.WriteFile on the settings file
    media,      \* the media list, rewritten by the upload loop
    res,        \* res.MediaIDString of the upload loop
    returned,   \* what each upload's response carried
    part,       \* owner and slug of the list branch
    net,        \* the remote calls made, in order
    out,        \* what was written to standard output, in order
    fatal,      \* the prefix log.Fatal was called with, "" if it was not
    exitCode,   \* the exit status, -1 while running
    harness     \* the input and result of a pure function under check

vars == <<pc, flag, disk, disk0, config, client, token, authorized, browser,
          writeCalls, media, res, returned, part, net, out, fatal, exitCode,
          harness>>

runVars == <<pc, flag, disk, disk0, config, client, token, authorized,
             browser, writeCalls, media, res, returned, part, net, out, fatal,
             exitCode>>

\* flag values as the program's strings
Str_go == <<"g", "o">>
Str_slug == <<"d", "e", "v">>
Str_ownerSlug == <<"m", "e", "/", "d", "e", "v">>
Str_user == <<"b", "o", "b">>
Str_id == <<"4", "2">>
Str_path == <<"t", ".", "t", "x", "t">>
Str_hi == <<"h", "i">>
Str_yo == <<"y", "o">>
Str_self == <<"a", "n", "n">>
Str_20 == <<"2", "0">>
Str_abc == <<"a", "b", "c">>
Str_date == <<"2", "0", "1", "7", "-", "0", "5", "-", "0", "1">>
Str_baddate == <<"2", "0", "1", "7", "-", "0", "5">>

\* the paths -m may name, and the identifiers the platform hands out
MediaPath == <<<<"a", ".", "p", "n", "g">>, <<"b", ".", "p", "n", "g">>,
               <<"c", ".", "p", "n", "g">>, <<"d", ".", "p", "n", "g">>>>

\* the media_id_string the platform's response to the k-th upload carries
MediaId(k) == FormatInt(70 + k)

\* a response that decodes and carries no media_id_string
NoId == <<"?">>

\* the built-in client credentials, src/twty.go 403-404
DefaultConfig ==
    [k \in {"ClientToken", "ClientSecret"} |->
        IF k = "ClientToken" THEN "MbartJkKCrSegn45xK9XLw"
        ELSE "1nI3dHFtK9UY1kL6UEYWk6r2lFEcNHWhk7MtXe7eo"]

\* contents of an existing settings file that parse as a JSON object of strings
\* the values a settings file of the user's own holds, one for each key
Own ==
    [ClientToken |-> "own-ct", ClientSecret |-> "own-cs",
     AccessToken |-> "own-at", AccessSecret |-> "own-as"]

FileContents ==
    { EmptyMap,
      [k \in {"ClientToken", "ClientSecret"} |-> Own[k]],
      [k \in {"ClientToken", "ClientSecret", "AccessToken"} |-> Own[k]],
      [k \in {"ClientToken", "ClientSecret", "AccessToken", "AccessSecret"} |->
          Own[k]] }

\* the settings file as a run finds it: absent, unreadable, holding what
\* json.Unmarshal rejects, holding the JSON value null, or holding an
\* object of strings
Disks ==
    {[kind |-> "absent", content |-> EmptyMap],
     [kind |-> "unreadable", content |-> EmptyMap],
     [kind |-> "malformed", content |-> EmptyMap],
     [kind |-> "null", content |-> EmptyMap]}
    \cup {[kind |-> "json", content |-> c] : c \in FileContents}

ActionFlags == {"search", "reply", "list", "user", "favorite", "fromfile",
                "show_user"}

\* the flag records in which S is the set of action flags given
FlagsOf(S, medias) ==
    [ profile : {"", "?"},
      search : IF "search" \in S THEN {Str_go} ELSE {<<>>},
      reply : {"reply" \in S},
      list : IF "list" \in S THEN {Str_slug, Str_ownerSlug} ELSE {<<>>},
      user : IF "user" \in S THEN {Str_user} ELSE {<<>>},
      favorite : IF "favorite" \in S THEN {Str_id} ELSE {<<>>},
      fromfile : IF "fromfile" \in S THEN {Str_path} ELSE {<<>>},
      show_user : IF "show_user" \in S THEN {Str_user} ELSE {<<>>},
      inreply : {<<>>, Str_id},
      args : {<<>>, <<Str_hi, Str_yo>>},
      media : medias ]

MediaLists == {SubSeq(MediaPath, 1, n) : n \in 0..MaxMedia}

\* the flags of a run: no action flag, or one of them, with or without -i,
\* positional arguments and media (every combination of the action flags
\* is the start of SpecDispatch)
RunFlags ==
    UNION {FlagsOf(S, MediaLists) : S \in {{}} \cup {{a} : a \in ActionFlags}}

\* every combination of the action flags
AllFlags == UNION {FlagsOf(S, MediaLists) : S \in SUBSET ActionFlags}

NoToken == [Token |-> "", Secret |-> ""]

NoHarness == [fn |-> "none"]

Init ==
    /\ pc = "getConfig"
    /\ flag \in RunFlags
    /\ disk \in Disks
    /\ disk0 = disk
    /\ config = EmptyMap
    /\ client = NoToken
    /\ token = NoToken
    /\ authorized = FALSE
    /\ browser = "none"
    /\ writeCalls = 0
    /\ media = flag.media
    /\ res = <<>>
    /\ returned = <<>>
    /\ part = <<>>
    /\ net = <<>>
    /\ out = <<>>
    /\ fatal = ""
    /\ exitCode = -1
    /\ harness = NoHarness

FatalExitsZero(prefix) ==
    /\ pc' = "exit"
    /\ fatal' = prefix
    /\ exitCode' = 0

\* log.Fatal(prefix, err): the message goes to standard error, the process
\* exits with status 1
Fatal(prefix) ==
    /\ pc' = "exit"
    /\ fatal' = prefix
    /\ exitCode' = 1

\* a run-time panic: the message goes to standard error, the process exits
\* with status 2
Panic(message) ==
    /\ pc' = "exit"
    /\ fatal' = message
    /\ exitCode' = 2

\* one remote call: the endpoint, what its URL or body names beside the
\* parameters (a status id, a file), the parameter mapping, and whether
\* the call returned an error
Call(ep, arg, opt, err) == [ep |-> ep, arg |-> arg, opt |-> opt, err |-> err]

(***************************************************************************)
(* getConfig, src/twty.go 365-412, and its call at 549-552.                *)
(***************************************************************************)
getConfig ==
    /\ pc = "getConfig"
    /\ \/ \* os.MkdirAll fails
          /\ Fatal("cannot get configuration:")
          /\ UNCHANGED <<config, out>>
       \/ \* -a ?: the profile names are listed and the process exits 0
          /\ flag.profile = "?"
          /\ out' = IF disk.kind = "absent" THEN <<>>
                    ELSE <<Emit("profile", "plain", <<>>)>>
          /\ pc' = "exit"
          /\ exitCode' = 0
          /\ UNCHANGED <<config, fatal>>
       \/ \* the file cannot be read, or does not parse
          /\ flag.profile # "?"
          /\ disk.kind \in {"unreadable", "malformed"}
          /\ Fatal("cannot get configuration:")
          /\ UNCHANGED <<config, out>>
       \/ \* no file: the built-in client credentials
          /\ flag.profile # "?"
          /\ disk.kind = "absent"
          /\ config' = DefaultConfig
          /\ pc' = "getAccessToken"
          /\ UNCHANGED <<out, fatal, exitCode>>
       \/ \* the file's own mapping
          /\ flag.profile # "?"
          /\ disk.kind = "json"
          /\ config' = disk.content
          /\ pc' = "getAccessToken"
          /\ UNCHANGED <<out, fatal, exitCode>>
       \/ \* the file holds null: json.Unmarshal reports no error and leaves
          \* the nil map, which reads as a mapping without keys
          /\ flag.profile # "?"
          /\ disk.kind = "null"
          /\ config' = EmptyMap
          /\ pc' = "getAccessToken"
          /\ UNCHANGED <<out, fatal, exitCode>>
    /\ UNCHANGED <<flag, disk, disk0, client, token, authorized, browser,
                   writeCalls, media, res, returned, part, net, harness>>

(***************************************************************************)
(* getAccessToken, src/twty.go 201-228, with clientAuth, 160-199, and the  *)
(* call at 553-556.                                                        *)
(***************************************************************************)
\* the credential the token endpoint hands out for the PIN
FreshToken == [Token |-> "at", Secret |-> "as"]

foundBothNegated(c) == Has(c, "AccessToken") /\ ~Has(c, "AccessSecret")

\* foundToken && foundSecret, src/twty.go 207-209
foundBoth(c) == Has(c, "AccessToken") /\ Has(c, "AccessSecret")

\* 202-211: the client credentials are installed; a stored access token
\* and secret are returned as they are
getAccessToken ==
    /\ pc = "getAccessToken"
    /\ client' = [Token |-> Get(config, "ClientToken", ""),
                  Secret |-> Get(config, "ClientSecret", "")]
    /\ authorized' = FALSE
    /\ IF foundBoth(config)
       THEN /\ token' = [Token |-> Get(config, "AccessToken", ""),
                         Secret |-> Get(config, "AccessSecret", "")]
            /\ pc' = "persist"
       ELSE /\ token' = token
            /\ pc' = "requestTemporaryCredentials"
    /\ UNCHANGED <<flag, disk, disk0, config, browser, writeCalls, media, res,
                   returned, part, net, out, fatal, exitCode, harness>>

\* 212-216
requestTemporaryCredentials ==
    /\ pc = "requestTemporaryCredentials"
    /\ \/ /\ net' = Append(net, Call("oauth/request_token", <<>>, EmptyMap, TRUE))
          /\ Fatal("cannot get access token:")
       \/ /\ net' = Append(net, Call("oauth/request_token", <<>>, EmptyMap, FALSE))
          /\ pc' = "clientAuth"
          /\ UNCHANGED <<fatal, exitCode>>
    /\ UNCHANGED <<flag, disk, disk0, config, client, token, authorized,
                   browser, writeCalls, media, res, returned, part, out,
                   harness>>

\* 161-187: the prompt and the URL are printed, the browser is started if
\* its launcher is found
clientAuth ==
    /\ pc = "clientAuth"
    /\ out' = out \o <<Emit("prompt", "plain", <<>>), Emit("url", "plain", <<>>)>>
    /\ \/ \* exec.LookPath finds no launcher
          /\ browser' = "notfound"
          /\ pc' = "readPin"
          /\ UNCHANGED <<fatal, exitCode>>
       \/ \* the launcher starts
          /\ browser' = "started"
          /\ pc' = "readPin"
          /\ UNCHANGED <<fatal, exitCode>>
       \/ \* cmd.Start fails
          /\ browser' = "failed"
          /\ Fatal("cannot get access token:")
    /\ UNCHANGED <<flag, disk, disk0, config, client, token, authorized,
                   writeCalls, media, res, returned, part, net, harness>>

\* 189-193
readPin ==
    /\ pc = "readPin"
    /\ out' = Append(out, Emit("pin", "plain", <<>>))
    /\ \/ \* end of input
          /\ Fatal("cannot get access token:")
       \/ /\ pc' = "requestToken"
          /\ UNCHANGED <<fatal, exitCode>>
    /\ UNCHANGED <<flag, disk, disk0, config, client, token, authorized,
                   browser, writeCalls, media, res, returned, part, net,
                   harness>>

\* whether the Configuration is the nil map: it is what getConfig made of a
\* file holding null, and nothing is assigned to it before line 223
configIsNil == disk0.kind = "null"

\* 194-198 and 217-227: the PIN is exchanged; the new token and secret go
\* into the Configuration.  The assignment at 223 to an entry of the nil
\* map is a run-time panic: getAccessToken does not return and the
\* settings write is not reached.
requestToken ==
    /\ pc = "requestToken"
    /\ \/ /\ net' = Append(net, Call("oauth/access_token", <<>>, EmptyMap, TRUE))
          /\ Fatal("cannot get access token:")
          /\ UNCHANGED <<config, token, authorized>>
       \/ /\ ~configIsNil
          /\ net' = Append(net, Call("oauth/access_token", <<>>, EmptyMap, FALSE))
          /\ token' = FreshToken
          /\ config' = Put(Put(config, "AccessToken", FreshToken.Token),
                           "AccessSecret", FreshToken.Secret)
          /\ authorized' = TRUE
          /\ pc' = "persist"
          /\ UNCHANGED <<fatal, exitCode>>
       \/ /\ configIsNil
          /\ net' = Append(net, Call("oauth/access_token", <<>>, EmptyMap, FALSE))
          /\ Panic("panic: assignment to entry in nil map")
          /\ UNCHANGED <<config, token, authorized>>
    /\ UNCHANGED <<flag, disk, disk0, client, browser, writeCalls, media, res,
                   returned, part, out, harness>>

(***************************************************************************)
(* The settings write, src/twty.go 557-566.  json.MarshalIndent of a map   *)
(* of strings returns no error; ioutil.WriteFile may.                      *)
(***************************************************************************)
AfterPersist == IF Len(media) > 0 THEN "upload" ELSE "dispatch"

persist ==
    /\ pc = "persist"
    /\ IF authorized
       THEN /\ writeCalls' = writeCalls + 1
            /\ \/ \* ioutil.WriteFile succeeds
                  /\ disk' = [kind |-> "json", content |-> config]
                  /\ pc' = AfterPersist
                  /\ UNCHANGED <<fatal, exitCode>>
               \/ \* it fails: at the open (the file is as it was), at a
                  \* write (the file is cut short), or at the close after
                  \* the last byte (the file holds the new settings)
                  /\ disk' \in {disk,
                                [kind |-> "malformed", content |-> EmptyMap],
                                [kind |-> "json", content |-> config]}
                  /\ Fatal("cannot store file:")
       ELSE /\ pc' = AfterPersist
            /\ UNCHANGED <<disk, writeCalls, fatal, exitCode>>
    /\ UNCHANGED <<flag, disk0, config, client, token, authorized, browser,
                   media, res, returned, part, net, out, harness>>

(***************************************************************************)
(* The upload loop, src/twty.go 568-587, with upload, 230-271.             *)
(***************************************************************************)
\* the index of the loop: the entries before it have been replaced
UploadIndex == Len(returned) + 1

\* media[i] = res.MediaIDString, src/twty.go 585
Substitute(m, i, id) == [m EXCEPT ![i] = id]

AfterUploadOnce == "dispatch"

\* the loop goes on while entries are left, src/twty.go 580
AfterUpload == IF UploadIndex = Len(media) THEN "dispatch" ELSE "upload"

\* one turn of the loop
upload ==
    /\ pc = "upload"
    /\ UploadIndex <= Len(media)
    /\ \/ \* os.Open or io.Copy fails: no request is made
          /\ Fatal("cannot upload media:")
          /\ UNCHANGED <<media, res, returned, net>>
       \/ \* the request fails, or its response does not decode
          /\ net' = Append(net, Call("media/upload", media[UploadIndex], EmptyMap, TRUE))
          /\ Fatal("cannot upload media:")
          /\ UNCHANGED <<media, res, returned>>
       \/ \* the response carries a media_id_string
          /\ net' = Append(net, Call("media/upload", media[UploadIndex], EmptyMap, FALSE))
          /\ res' = MediaId(UploadIndex)
          /\ media' = Substitute(media, UploadIndex, res')
          /\ returned' = Append(returned, MediaId(UploadIndex))
          /\ pc' = AfterUpload
          /\ UNCHANGED <<fatal, exitCode>>
       \/ \* the response is a JSON object without one: res keeps its value
          /\ net' = Append(net, Call("media/upload", media[UploadIndex], EmptyMap, FALSE))
          /\ res' = res
          /\ media' = Substitute(media, UploadIndex, res)
          /\ returned' = Append(returned, NoId)
          /\ pc' = AfterUpload
          /\ UNCHANGED <<fatal, exitCode>>
    /\ UNCHANGED <<flag, disk, disk0, config, client, token, authorized,
                   browser, writeCalls, part, out, harness>>

(***************************************************************************)
(* The dispatch, src/twty.go 589-696.                                      *)
(***************************************************************************)
BranchRepliesFirst(f, m) ==
    IF f.reply THEN "mentions"
    ELSE IF Len(f.search) > 0 THEN "search"
    ELSE IF f.list # <<>> THEN "list"
    ELSE IF f.user # <<>> THEN "user"
    ELSE IF f.favorite # <<>> THEN "favorite"
    ELSE IF f.fromfile # <<>> THEN "fromfile"
    ELSE IF f.show_user # <<>> THEN "show_user"
    ELSE IF Len(f.args) = 0 /\ Len(m) = 0
         THEN IF f.inreply # <<>> THEN "retweet" ELSE "home"
    ELSE "post"

\* the if-chain of main: the branch taken with flags f and media list m
Branch(f, m) ==
    IF Len(f.search) > 0 THEN "search"
    ELSE IF f.reply THEN "mentions"
    ELSE IF f.list # <<>> THEN "list"
    ELSE IF f.user # <<>> THEN "user"
    ELSE IF f.favorite # <<>> THEN "favorite"
    ELSE IF f.fromfile # <<>> THEN "fromfile"
    ELSE IF f.show_user # <<>> THEN "show_user"
    ELSE IF Len(f.args) = 0 /\ Len(m) = 0
         THEN IF f.inreply # <<>> THEN "retweet" ELSE "home"
    ELSE "post"

\* files.String, src/twty.go 145-147
filesString(f) == Join(f, <<",">>)

\* the values of the flags that only parameterise or render the action
Counts == {<<>>, Str_20, Str_abc}
Dates == {<<>>, Str_date, Str_baddate}
RunIds == {0, MaxID}

\* what the platform answers
Tweet(n) == [Identifier |-> FormatInt(n)]
Timelines == {[j \in 1..n |-> Tweet(j)] : n \in {0, 2}}
Posted == Tweet(77)
Profile == [Id |-> 7, ScreenName |-> Str_user]

\* the raw body rawCall copies to standard output under -debug, 294-296
Echo(debug) == IF debug THEN <<Emit("raw", "json", <<>>)>> ELSE <<>>

Done ==
    /\ pc' = "exit"
    /\ exitCode' = 0
    /\ fatal' = fatal

\* rawCall into a result, and the rendering of it: the request is made;
\* it fails (before a body arrives, or while the body is decoded), or
\* the body decodes into a result, whose rendering (one of shown) is written
CallAndShow(ep, arg, opt, prefix, shown) ==
    \E debug \in BOOLEAN :
       \/ /\ net' = Append(net, Call(ep, arg, opt, TRUE))
          /\ out' = out
          /\ Fatal(prefix)
       \/ /\ net' = Append(net, Call(ep, arg, opt, TRUE))
          /\ out' = out \o Echo(debug)
          /\ Fatal(prefix)
       \/ \E rendering \in shown :
             /\ net' = Append(net, Call(ep, arg, opt, FALSE))
             /\ out' = out \o Echo(debug) \o rendering
             /\ Done

\* 594-597: the parameters of the search request
SearchOpt(q, count, since, until) ==
    untilToOpt(sinceToOpt(countToOpt(Put(EmptyMap, "q", q), count), since),
               until)

\* 589-602
search ==
    /\ pc = "dispatch"
    /\ Branch(flag, media) = "search"
    /\ \E count \in Counts, since \in Dates, until \in Dates,
          asjson \in BOOLEAN, verbose \in BOOLEAN :
          LET opt == SearchOpt(flag.search, count, since, until)
              shown == {showTweets(r, asjson, verbose) : r \in Timelines}
          IN  CallAndShow("search/tweets", <<>>, opt, "cannot get statuses:",
                          shown)
    /\ UNCHANGED <<flag, disk, disk0, config, client, token, authorized,
                   browser, writeCalls, media, res, returned, part, harness>>

\* 603-609
mentions ==
    /\ pc = "dispatch"
    /\ Branch(flag, media) = "mentions"
    /\ \E count \in Counts, asjson \in BOOLEAN, verbose \in BOOLEAN :
          LET shown == {showTweets(r, asjson, verbose) : r \in Timelines}
          IN  CallAndShow("statuses/mentions_timeline", <<>>,
                          countToOpt(EmptyMap, count), "cannot get tweets:",
                          shown)
    /\ UNCHANGED <<flag, disk, disk0, config, client, token, authorized,
                   browser, writeCalls, media, res, returned, part, harness>>

\* 611-619: a list given without its owner: the account is looked up
accountSettings ==
    /\ pc = "dispatch"
    /\ Branch(flag, media) = "list"
    /\ Len(SplitN2(flag.list, "/")) = 1
    /\ \E debug \in BOOLEAN :
          \/ /\ net' = Append(net, Call("account/settings", <<>>, EmptyMap, TRUE))
             /\ out' = out
             /\ Fatal("cannot get account:")
             /\ part' = part
          \/ /\ net' = Append(net, Call("account/settings", <<>>, EmptyMap, TRUE))
             /\ out' = out \o Echo(debug)
             /\ Fatal("cannot get account:")
             /\ part' = part
          \/ /\ net' = Append(net, Call("account/settings", <<>>, EmptyMap, FALSE))
             /\ out' = out \o Echo(debug)
             /\ part' = <<Str_self, SplitN2(flag.list, "/")[1]>>
             /\ pc' = "listStatuses"
             /\ UNCHANGED <<fatal, exitCode>>
    /\ UNCHANGED <<flag, disk, disk0, config, client, token, authorized,
                   browser, writeCalls, media, res, returned, harness>>

\* 620-629
listStatuses ==
    /\ \/ /\ pc = "dispatch"
          /\ Branch(flag, media) = "list"
          /\ Len(SplitN2(flag.list, "/")) = 2
          /\ part' = SplitN2(flag.list, "/")
       \/ /\ pc = "listStatuses"
          /\ part' = part
    /\ \E count \in Counts, sinceID \in RunIds, maxID \in RunIds,
          asjson \in BOOLEAN, verbose \in BOOLEAN :
          LET opt == maxIDtoOpt(sinceIDtoOpt(countToOpt(
                        Put(Put(EmptyMap, "owner_screen_name", part'[1]),
                            "slug", part'[2]), count), sinceID), maxID)
              shown == {showTweets(r, asjson, verbose) : r \in Timelines}
          IN  CallAndShow("lists/statuses", <<>>, opt, "cannot get tweets:",
                          shown)
    /\ UNCHANGED <<flag, disk, disk0, config, client, token, authorized,
                   browser, writeCalls, media, res, returned, harness>>

\* 630-640
userTimeline ==
    /\ pc = "dispatch"
    /\ Branch(flag, media) = "user"
    /\ \E count \in Counts, sinceID \in RunIds, maxID \in RunIds,
          asjson \in BOOLEAN, verbose \in BOOLEAN :
          LET opt == maxIDtoOpt(sinceIDtoOpt(countToOpt(
                        Put(EmptyMap, "screen_name", flag.user), count),
                        sinceID), maxID)
              shown == {showTweets(r, asjson, verbose) : r \in Timelines}
          IN  CallAndShow("statuses/user_timeline", <<>>, opt,
                          "cannot get tweets:", shown)
    /\ UNCHANGED <<flag, disk, disk0, config, client, token, authorized,
                   browser, writeCalls, media, res, returned, part, harness>>

\* 641-649: rawCall without a result: the body is not read
favorite ==
    /\ pc = "dispatch"
    /\ Branch(flag, media) = "favorite"
    /\ \/ /\ net' = Append(net, Call("favorites/create", <<>>,
                                     Put(EmptyMap, "id", flag.favorite), TRUE))
          /\ out' = out
          /\ Fatal("cannot create favorite:")
       \/ /\ net' = Append(net, Call("favorites/create", <<>>,
                                     Put(EmptyMap, "id", flag.favorite), FALSE))
          /\ out' = Append(out, Emit("favorited", "plain", <<>>))
          /\ Done
    /\ UNCHANGED <<flag, disk, disk0, config, client, token, authorized,
                   browser, writeCalls, media, res, returned, part, harness>>

\* the parameters of statuses/update, 656 and 691
UpdateOpt(status) ==
    Put(Put(Put(EmptyMap, "status", status),
            "in_reply_to_status_id", flag.inreply),
        "media_ids", filesString(media))

Tweeted(r) == <<Emit("tweeted", "plain", r.Identifier)>>

\* 650-660
postFromFile ==
    /\ pc = "dispatch"
    /\ Branch(flag, media) = "fromfile"
    /\ \/ \* readFile fails
          /\ Fatal("cannot read a new tweet:")
          /\ UNCHANGED <<net, out>>
       \/ CallAndShow("statuses/update", <<>>, UpdateOpt(Str_hi),
                      "cannot post tweet:", {Tweeted(Posted)})
    /\ UNCHANGED <<flag, disk, disk0, config, client, token, authorized,
                   browser, writeCalls, media, res, returned, part, harness>>

\* 661-669
showUserProfile ==
    /\ pc = "dispatch"
    /\ Branch(flag, media) = "show_user"
    /\ \E asjson \in BOOLEAN, verbose \in BOOLEAN :
          CallAndShow("users/show", <<>>,
                      Put(EmptyMap, "screen_name", flag.show_user),
                      "cannot get user:", {showUser(Profile, asjson, verbose)})
    /\ UNCHANGED <<flag, disk, disk0, config, client, token, authorized,
                   browser, writeCalls, media, res, returned, part, harness>>

Retweeted(r) == <<Emit("retweeted", "plain", r.Identifier)>>

\* 671-680
retweet ==
    /\ pc = "dispatch"
    /\ Branch(flag, media) = "retweet"
    /\ \E count \in Counts :
          CallAndShow("statuses/retweet", flag.inreply,
                      countToOpt(EmptyMap, count), "cannot retweet:",
                      {Retweeted(Posted)})
    /\ UNCHANGED <<flag, disk, disk0, config, client, token, authorized,
                   browser, writeCalls, media, res, returned, part, harness>>

\* 682-687
homeTimeline ==
    /\ pc = "dispatch"
    /\ Branch(flag, media) = "home"
    /\ \E count \in Counts, asjson \in BOOLEAN, verbose \in BOOLEAN :
          LET shown == {showTweets(r, asjson, verbose) : r \in Timelines}
          IN  CallAndShow("statuses/home_timeline", <<>>,
                          countToOpt(EmptyMap, count), "cannot get tweets:",
                          shown)
    /\ UNCHANGED <<flag, disk, disk0, config, client, token, authorized,
                   browser, writeCalls, media, res, returned, part, harness>>

\* 690-695
post ==
    /\ pc = "dispatch"
    /\ Branch(flag, media) = "post"
    /\ CallAndShow("statuses/update", <<>>,
                   UpdateOpt(Join(flag.args, <<" ">>)), "cannot post tweet:",
                   {Tweeted(Posted)})
    /\ UNCHANGED <<flag, disk, disk0, config, client, token, authorized,
                   browser, writeCalls, media, res, returned, part, harness>>

Dispatch ==
    \/ search
    \/ mentions
    \/ accountSettings
    \/ listStatuses
    \/ userTimeline
    \/ favorite
    \/ postFromFile
    \/ showUserProfile
    \/ retweet
    \/ homeTimeline
    \/ post

Next ==
    \/ getConfig
    \/ getAccessToken
    \/ requestTemporaryCredentials
    \/ clientAuth
    \/ readPin
    \/ requestToken
    \/ persist
    \/ upload
    \/ Dispatch

Spec == Init /\ [][Next]_vars

(***************************************************************************)
(* The dispatch alone, from every combination of the action flags: the     *)
(* state main is in at line 589 after a run with stored credentials whose  *)
(* uploads all returned an identifier.                                     *)
(***************************************************************************)
StoredConfig ==
    [k \in {"ClientToken", "ClientSecret", "AccessToken", "AccessSecret"} |->
        Own[k]]

InitDispatch ==
    /\ pc = "dispatch"
    /\ flag \in {f \in AllFlags : f.profile = ""}
    /\ disk = [kind |-> "json", content |-> StoredConfig]
    /\ disk0 = disk
    /\ config = StoredConfig
    /\ client = [Token |-> Own.ClientToken, Secret |-> Own.ClientSecret]
    /\ token = [Token |-> Own.AccessToken, Secret |-> Own.AccessSecret]
    /\ authorized = FALSE
    /\ browser = "none"
    /\ writeCalls = 0
    /\ media = [j \in 1..Len(flag.media) |-> MediaId(j)]
    /\ res = IF Len(flag.media) = 0 THEN <<>> ELSE MediaId(Len(flag.media))
    /\ returned = media
    /\ part = <<>>
    /\ net = [j \in 1..Len(flag.media) |->
                 Call("media/upload", flag.media[j], EmptyMap, FALSE)]
    /\ out = <<>>
    /\ fatal = ""
    /\ exitCode = -1
    /\ harness = NoHarness

SpecDispatch == InitDispatch /\ [][Dispatch]_vars

(***************************************************************************)
(* The pure functions on their own: each action applies one of them to     *)
(* inputs drawn from bounded sets and records the input and the result.    *)
(***************************************************************************)
Alphabet == {"1", "-", "a"}

Strings == UNION {[1..n -> Alphabet] : n \in 0..MaxStrLen}

\* values of -count beyond that alphabet: signs, leading zeros, blanks,
\* other separators, and the digit strings around the ends of the range of
\* int
Str_intMax == IntMaxDigits
Str_intMaxPlus1 == IntMinDigits
Str_intMin == <<"-">> \o IntMinDigits
Str_intMinMinus1 == <<"-">> \o SubSeq(IntMinDigits, 1, 18) \o <<"9">>
Str_zerosIntMax == <<"0", "0">> \o IntMaxDigits
Str_twentyDigits == <<"1">> \o IntMaxDigits

CountStrings ==
    Strings \cup
    { Str_20, Str_abc, <<"0">>, <<"0", "0", "7">>, <<"+", "1">>,
      <<"-", "0">>, <<"+">>, <<"+", "-", "1">>, <<"1", "_", "0">>,
      <<" ", "1">>, <<"1", " ">>, <<"1", ".", "5">>, <<"1", "e", "3">>,
      <<"0", "x", "1">>,
      Str_intMax, Str_intMaxPlus1, Str_intMin, Str_intMinMinus1,
      Str_zerosIntMax, Str_twentyDigits }

OptMaps ==
    { EmptyMap,
      [k \in {"q"} |-> Str_go],
      [k \in {"q", "count"} |-> Str_20],
      [k \in {"since", "until", "since_id", "max_id"} |-> Str_abc] }

TweetLists == UNION {[1..n -> {Tweet(1), Tweet(2), Tweet(3)}] : n \in 0..MaxTweets}

DefaultFlags ==
    [profile |-> "", search |-> <<>>, reply |-> FALSE, list |-> <<>>,
     user |-> <<>>, favorite |-> <<>>, fromfile |-> <<>>, show_user |-> <<>>,
     inreply |-> <<>>, args |-> <<>>, media |-> <<>>]

InitFn ==
    /\ pc = "harness"
    /\ flag = DefaultFlags
    /\ disk = [kind |-> "absent", content |-> EmptyMap]
    /\ disk0 = disk
    /\ config = EmptyMap
    /\ client = NoToken
    /\ token = NoToken
    /\ authorized = FALSE
    /\ browser = "none"
    /\ writeCalls = 0
    /\ media = <<>>
    /\ res = <<>>
    /\ returned = <<>>
    /\ part = <<>>
    /\ net = <<>>
    /\ out = <<>>
    /\ fatal = ""
    /\ exitCode = -1
    /\ harness = NoHarness

Applied(fn, opt, arg, result) ==
    [fn |-> fn, opt |-> opt, arg |-> arg, result |-> result]

applyCountToOpt ==
    /\ harness = NoHarness
    /\ \E opt \in OptMaps, c \in CountStrings :
          harness' = Applied("countToOpt", opt, c, countToOpt(opt, c))
    /\ UNCHANGED runVars

applySinceToOpt ==
    /\ harness = NoHarness
    /\ \E opt \in OptMaps, t \in Strings :
          harness' = Applied("sinceToOpt", opt, t, sinceToOpt(opt, t))
    /\ UNCHANGED runVars

applyUntilToOpt ==
    /\ harness = NoHarness
    /\ \E opt \in OptMaps, t \in Strings :
          harness' = Applied("untilToOpt", opt, t, untilToOpt(opt, t))
    /\ UNCHANGED runVars

applySearchOpt ==
    /\ harness = NoHarness
    /\ \E count \in Counts, since \in Dates, until \in Dates :
          harness' = Applied("SearchOpt", EmptyMap, <<count, since, until>>,
                             SearchOpt(Str_go, count, since, until))
    /\ UNCHANGED runVars

applySinceIDtoOpt ==
    /\ harness = NoHarness
    /\ \E opt \in OptMaps, id \in (-MaxID)..MaxID :
          harness' = Applied("sinceIDtoOpt", opt, id, sinceIDtoOpt(opt, id))
    /\ UNCHANGED runVars

applyMaxIDtoOpt ==
    /\ harness = NoHarness
    /\ \E opt \in OptMaps, id \in (-MaxID)..MaxID :
          harness' = Applied("maxIDtoOpt", opt, id, maxIDtoOpt(opt, id))
    /\ UNCHANGED runVars

applyShowTweets ==
    /\ harness = NoHarness
    /\ \E tweets \in TweetLists, asjson \in BOOLEAN, verbose \in BOOLEAN :
          harness' = Applied("showTweets", EmptyMap,
                             [tweets |-> tweets, asjson |-> asjson,
                              verbose |-> verbose],
                             showTweets(tweets, asjson, verbose))
    /\ UNCHANGED runVars

NextFn ==
    \/ applyCountToOpt
    \/ applySinceToOpt
    \/ applyUntilToOpt
    \/ applySearchOpt
    \/ applySinceIDtoOpt
    \/ applyMaxIDtoOpt
    \/ applyShowTweets

SpecFn == InitFn /\ [][NextFn]_vars

(***************************************************************************)
(* Claims.                                                                 *)
(***************************************************************************)

\* C2, as stated: in every output mode (JSON, verbose and plain) showTweets
\* emits the tweets in the reverse of their arrival order: the k-th emitted
\* record is the tweet t[n-1-k].
C2_ReverseInEveryMode ==
    harness.fn = "showTweets" =>
        LET t == harness.arg.tweets
            n == Len(t)
        IN  /\ Len(harness.result) = n
            /\ \A j \in 1..n : harness.result[j].v = t[n + 1 - j]

\* C2, amended: in verbose and in plain mode showTweets emits the tweets in
\* the reverse of their arrival order; in JSON mode it emits them in their
\* arrival order.  In each mode there is one record per tweet.
C2_ReverseUnlessJson ==
    harness.fn = "showTweets" =>
        LET t == harness.arg.tweets
            n == Len(t)
        IN  /\ Len(harness.result) = n
            /\ \A j \in 1..n :
                  harness.result[j].v =
                      IF harness.arg.asjson THEN t[j] ELSE t[n + 1 - j]

\* three different tweets were rendered in JSON mode, and three in plain
C2_Witness ==
    /\ harness.fn = "showTweets"
    /\ harness.arg.tweets = <<Tweet(1), Tweet(2), Tweet(3)>>
    /\ harness.arg.asjson
    /\ harness.result[1].v = Tweet(1)

\* C9: sinceToOpt and untilToOpt return the mapping unchanged for every
\* input string (empty, date-shaped or malformed), and the parameters of a
\* search request never carry a since or until key.
C9_SinceUntilNeverSet ==
    /\ harness.fn \in {"sinceToOpt", "untilToOpt"} =>
          harness.result = harness.opt
    /\ harness.fn = "SearchOpt" =>
          /\ ~Has(harness.result, "since")
          /\ ~Has(harness.result, "until")

\* sinceToOpt was applied to a date-shaped string and a mapping without the key
C9_Witness ==
    /\ harness.fn = "sinceToOpt"
    /\ harness.arg = <<"1", "-", "1", "-", "1">>
    /\ harness.opt = [k \in {"q"} |-> Str_go]
    /\ harness.result = harness.opt

\* the value of a string of decimal digits without a leading zero, -1 for
\* any other string
RECURSIVE DecimalValue(_)
DecimalValue(s) ==
    IF Len(s) = 0 \/ \E i \in 1..Len(s) : s[i] \notin DigitChars THEN -1
    ELSE IF Len(s) > 1 /\ s[1] = "0" THEN -1
    ELSE IF Len(s) = 1 THEN DigitVal(s[1])
    ELSE 10 * DecimalValue(SubSeq(s, 1, Len(s) - 1)) + DigitVal(s[Len(s)])

\* C10: for an id less than 1, sinceIDtoOpt and maxIDtoOpt leave the
\* mapping unchanged; for an id of 1 or more they set exactly the key
\* since_id (max_id) to the decimal string of the id and leave every other
\* key as it was.
C10_IdGating ==
    harness.fn \in {"sinceIDtoOpt", "maxIDtoOpt"} =>
        LET key == IF harness.fn = "sinceIDtoOpt" THEN "since_id" ELSE "max_id"
            id == harness.arg
            opt == harness.opt
            r == harness.result
        IN  IF id < 1 THEN r = opt
            ELSE /\ DOMAIN r = DOMAIN opt \cup {key}
                 /\ DecimalValue(r[key]) = id
                 /\ \A k \in DOMAIN opt \ {key} : r[k] = opt[k]

\* maxIDtoOpt was applied to id 1 and to an id of two digits
C10_Witness ==
    /\ harness.fn = "maxIDtoOpt"
    /\ harness.arg = 1
    /\ harness.opt = [k \in {"q"} |-> Str_go]
    /\ harness.result["max_id"] = <<"1">>

(***************************************************************************)
(* Claims about the run.                                                   *)
(***************************************************************************)
OAuthEndpoints == {"oauth/request_token", "oauth/access_token"}

\* the calls of the dispatched action
ApiCalls == SelectSeq(net, LAMBDA c : c.ep \notin OAuthEndpoints \cup {"media/upload"})

UploadCalls == SelectSeq(net, LAMBDA c : c.ep = "media/upload")

\* the endpoints each branch of the dispatch may call
EndpointsOf(b) ==
    CASE b = "search" -> {"search/tweets"}
      [] b = "mentions" -> {"statuses/mentions_timeline"}
      [] b = "list" -> {"account/settings", "lists/statuses"}
      [] b = "user" -> {"statuses/user_timeline"}
      [] b = "favorite" -> {"favorites/create"}
      [] b = "fromfile" -> {"statuses/update"}
      [] b = "show_user" -> {"users/show"}
      [] b = "retweet" -> {"statuses/retweet"}
      [] b = "home" -> {"statuses/home_timeline"}
      [] b = "post" -> {"statuses/update"}

\* the priority order of the claim, and the condition of each entry
Priority == <<"search", "mentions", "list", "user", "favorite", "fromfile",
              "show_user", "bare", "post">>

ConditionOf(b) ==
    CASE b = "search" -> flag.search # <<>>
      [] b = "mentions" -> flag.reply
      [] b = "list" -> flag.list # <<>>
      [] b = "user" -> flag.user # <<>>
      [] b = "favorite" -> flag.favorite # <<>>
      [] b = "fromfile" -> flag.fromfile # <<>>
      [] b = "show_user" -> flag.show_user # <<>>
      [] b = "bare" -> flag.args = <<>> /\ flag.media = <<>>
      [] b = "post" -> TRUE

FirstTrue ==
    LET i == CHOOSE i \in 1..Len(Priority) :
                 /\ ConditionOf(Priority[i])
                 /\ \A j \in 1..(i - 1) : ~ConditionOf(Priority[j])
    IN  IF Priority[i] = "bare"
        THEN IF flag.inreply # <<>> THEN "retweet" ELSE "home"
        ELSE Priority[i]

\* C1: a run that reaches the dispatch takes exactly one action, the first
\* in the priority order whose condition is true: every call of the
\* dispatch goes to an endpoint of that branch, the branch's own endpoint is
\* called at most once, and a run that ended well called it.  A status
\* update carries the text of the file under -f and the words of the
\* command line otherwise.
C1_FirstTrueBranchWins ==
    /\ \A i \in 1..Len(ApiCalls) : ApiCalls[i].ep \in EndpointsOf(FirstTrue)
    /\ \A i \in 1..Len(ApiCalls) :
          ApiCalls[i].ep = "statuses/update" =>
              ApiCalls[i].opt["status"] =
                  IF FirstTrue = "fromfile" THEN <<"h", "i">>
                  ELSE IF flag.args = <<>> THEN <<>>
                  ELSE <<"h", "i", " ", "y", "o">>
    /\ \A i, j \in 1..Len(ApiCalls) : ApiCalls[i].ep = ApiCalls[j].ep => i = j
    /\ (pc = "listStatuses") =>
          /\ FirstTrue = "list"
          /\ Len(ApiCalls) = 1
    /\ (pc = "exit" /\ exitCode = 0 /\ flag.profile # "?") =>
          /\ Len(ApiCalls) >= 1
          /\ ApiCalls[Len(ApiCalls)].ep \in
                EndpointsOf(FirstTrue) \ {"account/settings"}
    /\ (pc = "exit" /\ exitCode = 1 /\ ApiCalls = <<>>) =>
          \/ fatal \in {"cannot get configuration:", "cannot get access token:",
                        "cannot store file:", "cannot upload media:"}
          \/ FirstTrue = "fromfile" /\ fatal = "cannot read a new tweet:"

\* -s and -r were both given, with every other action flag: the search
\* endpoint was called and the run ended well
C1_Witness ==
    /\ flag.search # <<>>
    /\ flag.reply
    /\ flag.list # <<>>
    /\ flag.show_user # <<>>
    /\ pc = "exit"
    /\ exitCode = 0
    /\ Len(ApiCalls) = 1
    /\ ApiCalls[1].ep = "search/tweets"

\* the run is past getAccessToken
AuthReturned ==
    pc \in {"persist", "upload", "dispatch", "listStatuses"}
    \/ (pc = "exit" /\ flag.profile # "?"
        /\ fatal \notin {"cannot get configuration:", "cannot get access token:"})

\* the authorization ended in the fresh state: the temporary credential was
\* obtained, the PIN read and exchanged
FreshlyAuthorized ==
    /\ \E i \in 1..Len(net) : net[i].ep = "oauth/access_token" /\ ~net[i].err
    /\ \E i \in 1..Len(out) : out[i].k = "pin"

\* C3: ioutil.WriteFile is called on the settings file if and only if the
\* authorization ended in the fresh state; a run with a stored AccessToken
\* and AccessSecret, and a run whose authorization failed, leave the file as
\* they found it; after a fresh authorization the file holds the new
\* AccessToken and AccessSecret before any upload or API call is made.
C3_SettingsWrittenIffFresh ==
    /\ writeCalls = IF FreshlyAuthorized /\ pc # "persist" THEN 1 ELSE 0
    /\ ~FreshlyAuthorized => disk = disk0
    /\ (disk0.kind = "json" /\ Has(disk0.content, "AccessToken")
        /\ Has(disk0.content, "AccessSecret")) => ~FreshlyAuthorized
    /\ fatal = "cannot get access token:" => ~FreshlyAuthorized
    /\ (FreshlyAuthorized /\ (UploadCalls # <<>> \/ ApiCalls # <<>>
                              \/ pc \in {"upload", "dispatch", "listStatuses"})) =>
          /\ disk.kind = "json"
          /\ disk.content = config
          /\ disk.content["AccessToken"] = token.Token
          /\ disk.content["AccessSecret"] = token.Secret
          /\ token = FreshToken

\* the temporary credential was obtained, the PIN read and exchanged, and
\* the run ended without a write: the settings file held null
C3_Witness ==
    /\ FreshlyAuthorized
    /\ disk0.kind = "null"
    /\ pc = "exit"
    /\ exitCode = 2
    /\ writeCalls = 0
    /\ disk = disk0

ResultKinds == {"tweet", "user", "tweeted", "favorited", "retweeted"}

RemoteEndpoints ==
    {"media/upload", "account/settings", "search/tweets",
     "statuses/mentions_timeline", "lists/statuses", "statuses/user_timeline",
     "favorites/create", "statuses/update", "users/show", "statuses/retweet",
     "statuses/home_timeline"}

RemoteFailures ==
    {"cannot upload media:", "cannot get account:", "cannot get statuses:",
     "cannot get tweets:", "cannot create favorite:", "cannot post tweet:",
     "cannot get user:", "cannot retweet:"}

\* C4: a failed media upload, account lookup or dispatched call is fatal:
\* the run has ended with status 1, the failed call is the last remote call
\* made, and nothing of the action's result is on standard output.
C4_RemoteFailureIsFatal ==
    /\ \A i \in 1..Len(net) :
          (net[i].ep \in RemoteEndpoints /\ net[i].err) =>
              /\ i = Len(net)
              /\ pc = "exit"
              /\ exitCode = 1
              /\ fatal \in RemoteFailures
              /\ \A j \in 1..Len(out) : out[j].k \notin ResultKinds
    /\ fatal \in RemoteFailures =>
          /\ pc = "exit"
          /\ exitCode = 1
          /\ \A j \in 1..Len(out) : out[j].k \notin ResultKinds

\* the list call failed after the account lookup had answered
C4_Witness ==
    /\ Len(ApiCalls) = 2
    /\ ApiCalls[2].ep = "lists/statuses"
    /\ ApiCalls[2].err
    /\ fatal = "cannot get tweets:"
    /\ exitCode = 1

\* the identifiers joined with commas, first to last
RECURSIVE CommaJoined(_)
CommaJoined(ids) ==
    IF Len(ids) = 0 THEN <<>>
    ELSE IF Len(ids) = 1 THEN ids[1]
    ELSE ids[1] \o <<",">> \o CommaJoined(Tail(ids))

\* C5: once the upload of file i has returned, entry i of the media list
\* is the identifier the platform returned for that upload, it is not the
\* path given, and it is not the identifier the platform returned for the
\* upload of any other file; the entries not yet uploaded are the paths
\* given; and the media_ids of a post are the entries of the list, every
\* file uploaded, joined with commas in command-line order.
C5_MediaSubstitution ==
    /\ Len(media) = Len(flag.media)
    /\ \A i \in 1..Len(media) :
          /\ i <= Len(returned) =>
                /\ returned[i] # NoId => media[i] = returned[i]
                /\ media[i] # flag.media[i]
                /\ \A j \in 1..Len(returned) :
                      (j # i /\ returned[j] # NoId) => media[i] # returned[j]
          /\ i > Len(returned) => media[i] = flag.media[i]
    /\ \A i \in 1..Len(net) :
          net[i].ep = "statuses/update" =>
              /\ Len(returned) = Len(flag.media)
              /\ net[i].opt["media_ids"] = CommaJoined(media)

\* two files were uploaded, the answer to the second carried no
\* media_id_string, and the post names the identifier of the first file
\* twice
C5_Witness ==
    /\ Len(flag.media) = 2
    /\ returned = <<MediaId(1), NoId>>
    /\ media = <<<<"7", "1">>, <<"7", "1">>>>
    /\ \E i \in 1..Len(net) :
          /\ net[i].ep = "statuses/update"
          /\ net[i].opt["media_ids"] = <<"7", "1", ",", "7", "1">>

\* C6: when getAccessToken is entered the Configuration holds ClientToken
\* and ClientSecret, whatever the settings file held.
C6_ClientKeysPopulated ==
    pc = "getAccessToken" =>
        /\ Has(config, "ClientToken")
        /\ Has(config, "ClientSecret")

\* C7: with AccessToken and AccessSecret both in the Configuration,
\* getAccessToken makes no temporary-credential request, starts no browser,
\* reads no PIN and exchanges no token; it returns the stored pair, leaves
\* the Configuration as loaded and reports no fresh authorization.
C7_CachedCredential ==
    (disk0.kind = "json" /\ Has(disk0.content, "AccessToken")
     /\ Has(disk0.content, "AccessSecret") /\ AuthReturned) =>
        /\ \A i \in 1..Len(net) : net[i].ep \notin OAuthEndpoints
        /\ browser = "none"
        /\ \A i \in 1..Len(out) : out[i].k \notin {"prompt", "url", "pin"}
        /\ token = [Token |-> disk0.content["AccessToken"],
                    Secret |-> disk0.content["AccessSecret"]]
        /\ config = disk0.content
        /\ ~authorized
        /\ writeCalls = 0

\* a run with stored credentials got as far as a timeline
C7_Witness ==
    /\ disk0.kind = "json"
    /\ Has(disk0.content, "AccessToken")
    /\ Has(disk0.content, "AccessSecret")
    /\ ~authorized
    /\ token = [Token |-> "own-at", Secret |-> "own-as"]
    /\ pc = "exit"
    /\ exitCode = 0
    /\ Len(ApiCalls) = 1
    /\ ApiCalls[1].ep = "statuses/home_timeline"

StageOf(c) ==
    IF c.ep \in OAuthEndpoints THEN 1 ELSE IF c.ep = "media/upload" THEN 2 ELSE 3

\* C8: the remote calls of a run come in the order authorization, uploads
\* in command-line order, dispatched action; no call of the action is made
\* before every file has been uploaded; and after a failure of the
\* configuration load, of the authorization or of an upload no later upload
\* and no call of an action is made.
C8_StageOrder ==
    /\ pc \in {"getConfig", "getAccessToken"} => net = <<>>
    /\ \A i, j \in 1..Len(net) : i < j => StageOf(net[i]) <= StageOf(net[j])
    /\ Len(UploadCalls) <= Len(flag.media)
    /\ \A k \in 1..Len(UploadCalls) : UploadCalls[k].arg = flag.media[k]
    /\ ApiCalls # <<>> =>
          /\ Len(UploadCalls) = Len(flag.media)
          /\ \A k \in 1..Len(UploadCalls) : ~UploadCalls[k].err
    /\ pc \in {"dispatch", "listStatuses"} => Len(UploadCalls) = Len(flag.media)
    /\ fatal = "cannot get configuration:" => net = <<>>
    /\ fatal \in {"cannot get access token:", "cannot store file:"} =>
          \A i \in 1..Len(net) : StageOf(net[i]) = 1
    /\ fatal = "cannot upload media:" =>
          /\ ApiCalls = <<>>
          /\ \A k \in 1..Len(UploadCalls) : UploadCalls[k].err => k = Len(UploadCalls)
          /\ pc = "exit"

\* the second of two uploads failed after a fresh authorization
C8_Witness ==
    /\ Len(flag.media) = 2
    /\ Len(UploadCalls) = 2
    /\ ~UploadCalls[1].err
    /\ UploadCalls[2].err
    /\ fatal = "cannot upload media:"
    /\ \E i \in 1..Len(net) : net[i].ep = "oauth/access_token"

(***************************************************************************)
(* Claims about the count option.                                          *)
(***************************************************************************)
\* whether the number written by the digit string a is greater than the one
\* written by the digit string b of the same length
RECURSIVE Exceeds(_, _)
Exceeds(a, b) ==
    IF Len(a) = 0 THEN FALSE
    ELSE IF a[1] = b[1] THEN Exceeds(Tail(a), Tail(b))
    ELSE \E i, j \in 1..10 : Digit[i] = a[1] /\ Digit[j] = b[1] /\ i > j

\* the strings that write an integer of the program: a sign or none, then
\* digits and nothing else, for a value from -2^63 to 2^63 - 1
ParsesAsInteger(s) ==
    \E sign \in {<<>>, <<"+">>, <<"-">>} :
        /\ Len(s) > Len(sign)
        /\ SubSeq(s, 1, Len(sign)) = sign
        /\ LET digits == SubSeq(s, Len(sign) + 1, Len(s))
               first == IF \E i \in 1..Len(digits) : digits[i] # "0"
                        THEN CHOOSE i \in 1..Len(digits) :
                                 /\ digits[i] # "0"
                                 /\ \A j \in 1..(i - 1) : digits[j] = "0"
                        ELSE Len(digits) + 1
               significant == SubSeq(digits, first, Len(digits))
               limit == IF sign = <<"-">> THEN IntMinDigits ELSE IntMaxDigits
           IN  /\ \A i \in 1..Len(digits) : digits[i] \in DigitChars
               /\ Len(significant) <= Len(limit)
               /\ Len(significant) = Len(limit) => ~Exceeds(significant, limit)

\* C11: countToOpt sets the key count to the raw string, character for
\* character, and leaves every other key as it was, exactly when the string
\* parses as an integer; for every other string (the empty one, a
\* non-numeric one) it returns the mapping unchanged, and it raises no
\* error.  The parameters of a search request carry count, with the raw
\* string, exactly when the -count string parses as an integer.
C11_CountGating ==
    /\ harness.fn = "countToOpt" =>
          LET c == harness.arg
              opt == harness.opt
              r == harness.result
          IN  /\ IF ParsesAsInteger(c)
                 THEN /\ DOMAIN r = DOMAIN opt \cup {"count"}
                      /\ r["count"] = c
                      /\ \A k \in DOMAIN opt \ {"count"} : r[k] = opt[k]
                 ELSE r = opt
              /\ fatal = ""
              /\ exitCode = -1
    /\ harness.fn = "SearchOpt" =>
          LET c == harness.arg[1]
              r == harness.result
          IN  /\ Has(r, "count") <=> ParsesAsInteger(c)
              /\ Has(r, "count") => r["count"] = c

\* countToOpt was applied to a numeric string with leading zeros and a
\* mapping without the key, and the key holds the string as it was given
C11_Witness ==
    /\ harness.fn = "countToOpt"
    /\ harness.arg = <<"0", "0", "7">>
    /\ harness.opt = [k \in {"q"} |-> Str_go]
    /\ harness.result = [k \in {"q", "count"} |->
                             IF k = "q" THEN Str_go ELSE <<"0", "0", "7">>]

====
